---- MODULE Spec2Model ----
(***************************************************************************)
(* Model of app.py, the ParrisRV listing scraper.                          *)
(*                                                                         *)
(* Text is modelled as sequences of one-character strings, so that the     *)
(* regular expressions and string methods of the source are computed       *)
(* character by character.  A detail page is a record holding what the     *)
(* HTML text is to the code: its length, whether it carries the OOPS       *)
(* marker text, and what the BeautifulSoup queries find in it.             *)
(***************************************************************************)
EXTENDS Integers, Sequences, FiniteSets, TLC

(***************************************************************************)
(* Bounds of the model.                                                    *)
(***************************************************************************)
\* pages a listing pass may visit (run_scrape's max_pages argument)
MaxPages == 2
\* tokens in a generated page heading / URL slug (title specification)
MaxTokens == 3
MaxPayTokens == 4
MaxLinks == 1
MaxParams == 3

(***************************************************************************)
(* Program constants.                                                      *)
(***************************************************************************)
MAX_TRIES == 3
MIN_HTML_LEN == 5000
STRONG_TITLE_LEN == 6
WEAK_TITLE_LEN == 10
MIN_CYCLES == 5
MAX_LOOPS == 200

(***************************************************************************)
(* Characters and strings.                                                 *)
(***************************************************************************)
UpperAlpha == <<"A","B","C","D","E","F","G","H","I","J","K","L","M",
                "N","O","P","Q","R","S","T","U","V","W","X","Y","Z">>
LowerAlpha == <<"a","b","c","d","e","f","g","h","i","j","k","l","m",
                "n","o","p","q","r","s","t","u","v","w","x","y","z">>
Digits == <<"0","1","2","3","4","5","6","7","8","9">>

\* the characters of the model in code-point order (sorted() compares by it)
AsciiOrder == <<" ","!","\"","#","$","%",",","-",".","/">> \o Digits \o <<":","=","?">>
              \o UpperAlpha \o <<"_">> \o LowerAlpha

CharCode(c) == IF \E i \in 1..Len(AsciiOrder) : AsciiOrder[i] = c
               THEN CHOOSE i \in 1..Len(AsciiOrder) : AsciiOrder[i] = c
               ELSE 0

\* str.lower() on one character
LowerChar(c) == IF \E i \in 1..26 : UpperAlpha[i] = c
                THEN LowerAlpha[CHOOSE i \in 1..26 : UpperAlpha[i] = c]
                ELSE c

\* str.lower()
safe_lower(s) == [i \in 1..Len(s) |-> LowerChar(s[i])]

\* regex \s
IsSpace(c) == c \in {" ", "\n"}

\* regex \w
IsWordChar(c) == \/ \E i \in 1..26 : UpperAlpha[i] = c \/ LowerAlpha[i] = c
                 \/ \E i \in 1..10 : Digits[i] = c
                 \/ c = "_"

\* s[i-1:] in Python terms: the suffix of s that starts at position i
From(s, i) == SubSeq(s, i, Len(s))

\* s.startswith(p) at position i
MatchAt(s, p, i) == /\ i >= 1
                    /\ i + Len(p) - 1 <= Len(s)
                    /\ SubSeq(s, i, i + Len(p) - 1) = p

StartsWith(s, p) == MatchAt(s, p, 1)

EndsWith(s, p) == MatchAt(s, p, Len(s) - Len(p) + 1)

\* s.find(p) + 1: the first position where p occurs, 0 if none
Find(s, p) == IF \E i \in 1..Len(s) : MatchAt(s, p, i)
              THEN CHOOSE i \in 1..Len(s) :
                     MatchAt(s, p, i) /\ \A j \in 1..(i - 1) : ~MatchAt(s, p, j)
              ELSE 0

\* p in s
Contains(s, p) == Find(s, p) # 0

\* s.count(c) for one character
CountChar(s, c) == Cardinality({i \in 1..Len(s) : s[i] = c})

\* s.replace(a, b) for single characters
ReplaceChar(s, a, b) == [i \in 1..Len(s) |-> IF s[i] = a THEN b ELSE s[i]]

\* the first position at or after i that holds no whitespace (Len(s)+1 if none)
RECURSIVE SkipSpace(_, _)
SkipSpace(s, i) == IF i <= Len(s) /\ IsSpace(s[i]) THEN SkipSpace(s, i + 1) ELSE i

\* the last position at or before i that holds no whitespace (0 if none)
RECURSIVE SkipSpaceBack(_, _)
SkipSpaceBack(s, i) == IF i >= 1 /\ IsSpace(s[i]) THEN SkipSpaceBack(s, i - 1) ELSE i

\* str.strip()
Strip(s) == LET a == SkipSpace(s, 1)
                b == SkipSpaceBack(s, Len(s))
            IN  IF a > b THEN <<>> ELSE SubSeq(s, a, b)

\* re.sub(r"\s+", " ", s): every run of whitespace becomes one space
RECURSIVE CollapseSpace(_)
CollapseSpace(s) ==
    IF s = <<>> THEN <<>>
    ELSE IF IsSpace(s[1])
         THEN <<" ">> \o CollapseSpace(From(s, SkipSpace(s, 1)))
         ELSE <<s[1]>> \o CollapseSpace(Tail(s))

\* clean_text, and norm inside parse_detail_html
clean_text(t) == Strip(CollapseSpace(t))

\* lexicographic order of two strings by code point
RECURSIVE StrLess(_, _)
StrLess(a, b) ==
    IF b = <<>> THEN FALSE
    ELSE IF a = <<>> THEN TRUE
    ELSE IF a[1] = b[1] THEN StrLess(Tail(a), Tail(b))
    ELSE CharCode(a[1]) < CharCode(b[1])

\* sorted(set_of_strings)
RECURSIVE SortedSeq(_)
SortedSeq(S) ==
    IF S = {} THEN <<>>
    ELSE LET m == CHOOSE x \in S : \A y \in S \ {x} : StrLess(x, y)
         IN  <<m>> \o SortedSeq(S \ {m})

(***************************************************************************)
(* Text helpers of the scraper.                                            *)
(***************************************************************************)
USED_WORD == <<"u","s","e","d">>
OOPS_WORD == <<"o","o","p","s">>
\* the second member of the junk-title set of is_valid_row
JUNK_TITLE == <<"\"","\"","\"",",","\"","\"","u","s","e","d","\"">>
PRODUCT_PREFIX == <<"h","t","t","p","s",":","/","/","w","w","w",".","p","a","r","r","i","s","r","v",".","c","o","m","/","p","r","o","d","u","c","t","/">>
SCHEME_SEP == <<":","/","/">>
PARRIS_HOST == <<"p","a","r","r","i","s","r","v",".","c","o","m">>
PRODUCT_DIR == <<"/","p","r","o","d","u","c","t","/">>
PRODUCT_USED == <<"/","p","r","o","d","u","c","t","/","u","s","e","d","-">>
PRODUCT_USED_BARE == <<"/","p","r","o","d","u","c","t","/","u","s","e","d">>
IMAGE_EXTS == {<<".","j","p","g">>, <<".","j","p","e","g">>, <<".","p","n","g">>, <<".","w","e","b","p">>, <<".","s","v","g">>}

\* re.sub(r'^\s*used\s*[:\-]?\s*', '', title, flags=re.I): every part of the
\* pattern is greedy and none can give back, so one left-to-right scan decides it
strip_used_prefix(title) ==
    LET i == SkipSpace(title, 1) IN
    IF ~MatchAt(safe_lower(title), USED_WORD, i) THEN title
    ELSE LET j == SkipSpace(title, i + Len(USED_WORD))
             k == IF j <= Len(title) /\ title[j] \in {":", "-"} THEN j + 1 ELSE j
         IN  From(title, SkipSpace(title, k))

\* str.rstrip(").,;")
RECURSIVE RStripPunct(_)
RStripPunct(s) ==
    IF s # <<>> /\ s[Len(s)] \in {")", ".", ",", ";"}
    THEN RStripPunct(SubSeq(s, 1, Len(s) - 1))
    ELSE s

\* strip_fragment: cut at the first '#', drop trailing punctuation, drop one
\* trailing '/'.  (html.unescape changes nothing here: no modelled URL holds '&'.)
strip_fragment(u) ==
    IF u = <<>> THEN <<>>
    ELSE LET h == Find(u, <<"#">>)
             a == IF h = 0 THEN u ELSE SubSeq(u, 1, h - 1)
             b == RStripPunct(a)
         IN  IF b # <<>> /\ b[Len(b)] = "/" THEN SubSeq(b, 1, Len(b) - 1) ELSE b

\* u.split("/")[-1]
LastSegment(u) ==
    LET S == {i \in 1..Len(u) : u[i] = "/"} IN
    IF S = {} THEN u
    ELSE From(u, (CHOOSE i \in S : \A j \in S : j <= i) + 1)

\* the title taken from the URL slug when no page could be parsed
SlugTitle(u) == strip_used_prefix(ReplaceChar(LastSegment(u), "-", " "))

\* urlparse(u).netloc for an absolute URL: between '://' and the next '/', '?' or '#'
UrlRest(u) == LET s == Find(u, SCHEME_SEP) IN
              IF s = 0 THEN <<>> ELSE From(u, s + Len(SCHEME_SEP))

\* the first position of rest that holds one of the characters in Stop
FirstOf(rest, Stop) ==
    LET S == {i \in 1..Len(rest) : rest[i] \in Stop} IN
    IF S = {} THEN Len(rest) + 1 ELSE CHOOSE i \in S : \A j \in S : i <= j

UrlNetloc(u) == LET r == UrlRest(u) IN SubSeq(r, 1, FirstOf(r, {"/", "?", "#"}) - 1)

\* urlparse(u).path
UrlPath(u) == LET r == UrlRest(u)
                  p == From(r, FirstOf(r, {"/", "?", "#"}))
              IN  SubSeq(p, 1, FirstOf(p, {"?", "#"}) - 1)

\* re.search(r"/product/used-[^/]+", path).group(0), <<>> when there is no match
UsedSegment(path) ==
    LET C == {i \in 1..Len(path) :
                 /\ MatchAt(path, PRODUCT_USED, i)
                 /\ i + Len(PRODUCT_USED) <= Len(path)
                 /\ path[i + Len(PRODUCT_USED)] # "/"}
    IN  IF C = {} THEN <<>>
        ELSE LET i == CHOOSE x \in C : \A y \in C : x <= y
                 r == From(path, i + Len(PRODUCT_USED))
             IN  PRODUCT_USED \o SubSeq(r, 1, FirstOf(r, {"/"}) - 1)

_looks_like_product_detail(u) ==
    LET v == strip_fragment(u)
        path == safe_lower(UrlPath(v))
    IN  /\ Contains(UrlNetloc(v), PARRIS_HOST)
        /\ StartsWith(path, PRODUCT_DIR)
        /\ Contains(path, PRODUCT_USED)
        /\ \A e \in IMAGE_EXTS : ~EndsWith(path, e)
        /\ path \notin {PRODUCT_USED_BARE, PRODUCT_USED_BARE \o <<"/">>}
        /\ UsedSegment(path) # <<>>
        /\ CountChar(UsedSegment(path), "-") >= 2

_filter_detail_urls(urls) ==
    {strip_fragment(u) : u \in {x \in urls : strip_fragment(x) # <<>>
                                             /\ _looks_like_product_detail(strip_fragment(x))}}

(***************************************************************************)
(* Detail pages and rows.                                                  *)
(*                                                                         *)
(* A page is what page.content() returned: size is len(html_text), oops    *)
(* says whether the lower-cased text holds one of the two OOPS marker      *)
(* sentences, blank whether soup.text is empty, h1 is the text of the      *)
(* heading element, tagline, list_price, payments_from and image_url are   *)
(* what the extraction heuristics produce from it, and raises says whether *)
(* parsing it raises (urljoin on a malformed image URL, for one).          *)
(***************************************************************************)
NoText == <<>>

\* html_text = ""
EMPTY_HTML == [size |-> 0, oops |-> FALSE, blank |-> TRUE, h1 |-> NoText,
               tagline |-> NoText, list_price |-> NoText, payments_from |-> NoText,
               image_url |-> NoText, raises |-> FALSE]

looks_like_oops_html(html_text) == html_text.oops

\* the condition under which a fetched page is taken for an OOPS or cut-off page
NeedsRetry(html_text) == looks_like_oops_html(html_text) \/ html_text.size < MIN_HTML_LEN

\* the row built from the URL slug alone
SlugRow(u) == [title |-> SlugTitle(u), tagline |-> NoText, list_price |-> NoText,
               payments_from |-> NoText, image_url |-> NoText]

parse_detail_html(detail_url, html_text) ==
    IF html_text.blank THEN SlugRow(detail_url)
    ELSE [title |-> strip_used_prefix(clean_text(html_text.h1)),
          tagline |-> html_text.tagline,
          list_price |-> html_text.list_price,
          payments_from |-> html_text.payments_from,
          image_url |-> html_text.image_url]

\* dict.get(key, "")
Get(map, key) == IF key \in DOMAIN map THEN map[key] ELSE NoText

\* is_valid_row: <<ok, reason>>
is_valid_row(row) ==
    LET title == Strip(Get(row, "title"))
        img == Strip(Get(row, "image_url"))
        pay == Strip(Get(row, "payments_from"))
        price == Strip(Get(row, "list_price"))
        disc == Strip(Get(row, "payments_disclaimer"))
    IN  IF title = NoText \/ Contains(safe_lower(title), OOPS_WORD)
        THEN <<FALSE, "empty_or_error_title">>
        ELSE IF safe_lower(title) \in {USED_WORD, JUNK_TITLE}
        THEN <<FALSE, "junk_title">>
        ELSE IF /\ Len(title) >= STRONG_TITLE_LEN
                /\ (img # NoText \/ price # NoText \/ pay # NoText \/ disc # NoText)
        THEN <<TRUE, "">>
        ELSE IF /\ Len(title) >= WEAK_TITLE_LEN
                /\ StartsWith(Get(row, "detail_url"), PRODUCT_PREFIX)
        THEN <<TRUE, "weak-signals">>
        ELSE <<FALSE, "no_strong_signals">>

\* the except branch of process_one
ParseErrorRow(u, disc_map) ==
    SlugRow(u) @@ [payments_disclaimer |-> Get(disc_map, strip_fragment(u)),
                   detail_url |-> u]
               @@ ("__status__" :> "parse_error") @@ ("__error__" :> "ValueError")

process_one(u, html_text, disc_map) ==
    IF html_text.size > 0 /\ ~looks_like_oops_html(html_text) /\ html_text.raises
    THEN ParseErrorRow(u, disc_map)
    ELSE LET row0 == IF html_text.size > 0 /\ ~looks_like_oops_html(html_text)
                     THEN parse_detail_html(u, html_text)
                     ELSE SlugRow(u)
             row == [row0 EXCEPT !.title = strip_used_prefix(row0.title)]
                    @@ [payments_disclaimer |-> Get(disc_map, strip_fragment(u)),
                        detail_url |-> u]
             v == is_valid_row(row)
             reason == IF v[2] # "" THEN v[2]
                       ELSE IF looks_like_oops_html(html_text) THEN "oops_page"
                       ELSE "unknown"
         IN  row @@ ("__status__" :> (IF v[1] THEN "ok" ELSE "dropped"))
                 @@ ("__error__" :> (IF v[1] THEN "" ELSE reason))

\* the columns run_scrape builds the table from
cols == <<"title", "tagline", "list_price", "payments_from", "payments_disclaimer",
          "image_url", "detail_url", "__status__", "__error__">>

\* a filter that drops only the rows marked dropped
IsKept_NotDropped(r) == r["__status__"] # "dropped"

\* the rows run_scrape keeps
IsKept(r) == r["__status__"] = "ok" \/ r["__error__"] = "weak-signals"

\* [r for r in rows if ...], in order
RECURSIVE Kept(_)
Kept(rows) ==
    IF rows = <<>> THEN <<>>
    ELSE (IF IsKept(Head(rows)) THEN <<Head(rows)>> ELSE <<>>) \o Kept(Tail(rows))

\* pd.DataFrame([{k: r.get(k, "") for k in cols} for r in kept]): a frame made
\* from an empty list has no columns at all
DataFrame(kept) ==
    [columns |-> IF kept = <<>> THEN <<>> ELSE cols,
     records |-> [i \in 1..Len(kept) |->
                    [k \in {cols[j] : j \in 1..Len(cols)} |-> kept[i][k]]]]

(***************************************************************************)
(* What the site can answer.                                               *)
(***************************************************************************)
URL_A == PRODUCT_PREFIX \o <<"u","s","e","d","-","2","0","1","9","-","r","v","-","a","l","p","h","a">>
URL_B == <<"h","t","t","p","s",":","/","/","p","a","r","r","i","s","r","v",".","c","o","m","/","p","r","o","d","u","c","t","/","u","s","e","d","-","r","v","-","b">>
\* hrefs a listing page can hold: two detail pages (one with a fragment, one
\* with a trailing slash), a category page and an image
RawLinks == {URL_A, URL_A \o <<"#","t","o","p">>, URL_B \o <<"/">>,
             PRODUCT_PREFIX \o <<"u","s","e","d","-","r","v","s">>, URL_A \o <<".","j","p","g">>}

\* the links the disclaimer script can report, and the texts beside them
DiscLinks == {URL_A, URL_B \o <<"/">>}
DISC_TEXT == <<"$","2","0","5","/","m","o","."," ","w","i","t","h"," ","1","0","%"," ","d","o","w","n">>
DiscTexts == {NoText, DISC_TEXT}
\* the record lists page.evaluate can return: url -> disclaimer
DiscRecords == UNION {[S -> DiscTexts] : S \in SUBSET DiscLinks}

PAGE_GOOD == [size |-> MIN_HTML_LEN, oops |-> FALSE, blank |-> FALSE,
              h1 |-> <<"U","s","e","d"," "," ","2","0","1","9"," ","R","V"," ","A","l","p","h","a">>, tagline |-> <<"S","l","e","e","p","s"," ","4","!">>, list_price |-> <<"$","9",",","9","9","5">>,
              payments_from |-> <<"$","2","0","5">>, image_url |-> <<"h","t","t","p","s",":","/","/","w","w","w",".","p","a","r","r","i","s","r","v",".","c","o","m","/","a",".","j","p","g">>, raises |-> FALSE]
PAGE_OOPS == [size |-> MIN_HTML_LEN + 1, oops |-> TRUE, blank |-> FALSE,
              h1 |-> <<"O","O","P","S","!"," ","W","e"," ","h","a","d"," ","a"," ","p","r","o","b","l","e","m">>, tagline |-> NoText, list_price |-> NoText,
              payments_from |-> NoText, image_url |-> NoText, raises |-> FALSE]
PAGE_SHORT == [size |-> MIN_HTML_LEN - 1, oops |-> FALSE, blank |-> FALSE,
               h1 |-> <<"U","S","E","D",":"," ","R","V">>, tagline |-> NoText, list_price |-> NoText,
               payments_from |-> NoText, image_url |-> NoText, raises |-> FALSE]
PAGE_BLANK == [size |-> MIN_HTML_LEN, oops |-> FALSE, blank |-> TRUE,
               h1 |-> NoText, tagline |-> NoText, list_price |-> NoText,
               payments_from |-> NoText, image_url |-> NoText, raises |-> FALSE]
PAGE_NOTITLE == [size |-> MIN_HTML_LEN, oops |-> FALSE, blank |-> FALSE,
                 h1 |-> NoText, tagline |-> NoText, list_price |-> <<"$","9",",","9","9","5">>,
                 payments_from |-> NoText, image_url |-> NoText, raises |-> FALSE]
PAGE_BAD == [size |-> MIN_HTML_LEN, oops |-> FALSE, blank |-> FALSE,
             h1 |-> <<"U","s","e","d"," "," ","2","0","1","9"," ","R","V"," ","A","l","p","h","a">>, tagline |-> NoText, list_price |-> NoText,
             payments_from |-> NoText, image_url |-> NoText, raises |-> TRUE]
DetailPages == {PAGE_GOOD, PAGE_OOPS, PAGE_SHORT, PAGE_BLANK, PAGE_NOTITLE, PAGE_BAD}

\* what a failing await raises
ExcKinds == {"TimeoutError", "RuntimeError"}

Phases == {"collect", "disclaimers", "details", "assemble"}

(***************************************************************************)
(* State of one run of run_scrape.                                         *)
(***************************************************************************)
VARIABLES
    pc,           \* position of the run
    phase,        \* the phase in progress
    exc,          \* the exception on its way out, "none" if none
    phaseRuns,    \* how many times each phase's body has been started
    launchedBy,   \* launchedBy[b]: the phase that launched browser b
    openBrowsers, \* the browsers launched and not yet closed
    browser,      \* the phase's `browser` (0: none)
    context,      \* the browser behind the phase's `context` (0: none)
    pagesOpen,    \* pages opened and not yet closed
    navBusy,      \* page.goto calls started and not yet finished
    loadsVia,     \* <<phase, browser>> of every page load started
    page_num,     \* listing page number of the loop in progress
    stop,         \* the listing loop decided to break
    all_urls,     \* collect_detail_urls_with_playwright: all_urls
    detail_urls,  \* run_scrape: detail_urls
    disc_map,     \* fetch_disclaimers_across_pages: out
    visits,       \* the listing pages the pass in progress has gone to, with the outcome
    idx,          \* position in detail_urls of the loop in progress
    attempt,      \* fetch_detail_pages_html_with_playwright: attempt
    html_text,    \* fetch_detail_pages_html_with_playwright: html_text
    results,      \* fetch_detail_pages_html_with_playwright: results
    navCount,     \* navCount[u]: page.goto calls made for detail URL u
    lastEv,       \* detail phase, the last of: nav, page, error, record, backoff, polite
    rows,         \* run_scrape: rows
    table,        \* the DataFrame run_scrape returns
    csv,          \* the header line of the CSV offered for download
    tin,          \* function specifications: the input of the function
    tout,         \* function specifications: what the function returned
    stable,       \* autoscroll_until_stable: stable
    last,         \* autoscroll_until_stable: last
    loops,        \* autoscroll_until_stable: iterations of the for loop begun
    recent        \* the last MIN_CYCLES + 1 values of curr, oldest first

vars == <<pc, phase, exc, phaseRuns, launchedBy, openBrowsers, browser, context,
          pagesOpen, navBusy, loadsVia, page_num, stop, all_urls, detail_urls,
          disc_map, visits, idx, attempt, html_text, results, navCount, lastEv, rows,
          table, csv, tin, tout, stable, last, loops, recent>>

browserVars == <<launchedBy, openBrowsers, browser, context>>
listVars == <<page_num, stop, all_urls, detail_urls, disc_map, visits>>
detailVars == <<idx, attempt, html_text, results, navCount, lastEv>>
outVars == <<rows, table, csv>>
scrollVars == <<stable, last, loops, recent>>
funcVars == <<tin, tout, scrollVars>>

NoFrame == [columns |-> <<>>, records |-> <<>>]
NoInput == [u |-> NoText, html |-> EMPTY_HTML, disc |-> <<>>]

InitRun ==
    /\ phase = "none"
    /\ exc = "none"
    /\ phaseRuns = [p \in Phases |-> 0]
    /\ launchedBy = <<>>
    /\ openBrowsers = {}
    /\ browser = 0
    /\ context = 0
    /\ pagesOpen = 0
    /\ navBusy = 0
    /\ loadsVia = {}
    /\ page_num = 0
    /\ stop = FALSE
    /\ all_urls = {}
    /\ detail_urls = <<>>
    /\ disc_map = <<>>
    /\ visits = <<>>
    /\ idx = 0
    /\ attempt = 0
    /\ html_text = EMPTY_HTML
    /\ results = <<>>
    /\ navCount = <<>>
    /\ lastEv = "none"
    /\ rows = <<>>
    /\ table = NoFrame
    /\ csv = <<>>
    /\ tout = <<>>
    /\ stable = 0
    /\ last = -1
    /\ loops = 0
    /\ recent = <<>>

Init == pc = "start" /\ InitRun /\ tin = NoInput

\* p.chromium.launch / launch_persistent_context: a new browser process
NewBrowser == Len(launchedBy) + 1

\* dict.update / results[url] = value
Update(map, other) ==
    [k \in DOMAIN map \cup DOMAIN other |-> IF k \in DOMAIN other THEN other[k] ELSE map[k]]

(***************************************************************************)
(* run_coro_resilient                                                      *)
(***************************************************************************)
\* asyncio.run(coro) returned: run_scrape goes on with its next statement
RunCoroReturn ==
    /\ pc = "rc_end" /\ exc = "none"
    /\ pc' = CASE phase = "collect" -> "p_start"
               [] phase = "disclaimers" -> "d_start"
               [] OTHER -> "a_start"
    /\ UNCHANGED <<phase, exc, phaseRuns, browserVars, pagesOpen, navBusy, loadsVia,
                   listVars, detailVars, outVars, funcVars>>

\* asyncio.run(coro) raised: a RuntimeError goes to the new-loop branch, anything
\* else leaves run_coro_resilient and run_scrape
RunCoroRaise ==
    /\ pc = "rc_end" /\ exc # "none"
    /\ pc' = IF exc = "RuntimeError" THEN "rc_fallback" ELSE "raised"
    /\ UNCHANGED <<phase, exc, phaseRuns, browserVars, pagesOpen, navBusy, loadsVia,
                   listVars, detailVars, outVars, funcVars>>

\* variant: the new-loop branch runs the phase's body a second time
RunCoroFallback_Rerun ==
    /\ pc = "rc_fallback"
    /\ phaseRuns' = [phaseRuns EXCEPT ![phase] = @ + 1]
    /\ exc' = "none"
    /\ pc' = CASE phase = "collect" -> "c_launch"
               [] phase = "disclaimers" -> "p_launch"
               [] OTHER -> "d_launch"
    /\ UNCHANGED <<phase, browserVars, pagesOpen, navBusy, loadsVia,
                   listVars, detailVars, outVars, funcVars>>

\* loop.run_until_complete(coro) on the coroutine asyncio.run already ran: the
\* coroutine cannot be awaited again, the body does not run, RuntimeError leaves
RunCoroFallback ==
    /\ pc = "rc_fallback"
    /\ pc' = "raised"
    /\ UNCHANGED <<phase, exc, phaseRuns, browserVars, pagesOpen, navBusy, loadsVia,
                   listVars, detailVars, outVars, funcVars>>

(***************************************************************************)
(* collect_detail_urls_with_playwright                                     *)
(***************************************************************************)
RunCollect ==
    /\ pc = "start"
    /\ phase' = "collect"
    /\ phaseRuns' = [phaseRuns EXCEPT !["collect"] = @ + 1]
    /\ pc' = "c_launch"
    /\ UNCHANGED <<exc, browserVars, pagesOpen, navBusy, loadsVia, listVars,
                   detailVars, outVars, funcVars>>

CollectLaunch ==
    /\ pc = "c_launch"
    /\ launchedBy' = Append(launchedBy, phase)
    /\ openBrowsers' = openBrowsers \cup {NewBrowser}
    /\ browser' = NewBrowser
    /\ context' = NewBrowser
    /\ all_urls' = {}
    /\ page_num' = 1
    /\ pc' = "c_loop"
    /\ visits' = <<>>
    /\ UNCHANGED <<phase, exc, phaseRuns, pagesOpen, navBusy, loadsVia, stop,
                   detail_urls, disc_map, detailVars, outVars, funcVars>>

\* the head of `for page_num in range(1, max_pages + 1)` and context.new_page()
CollectNewPage ==
    /\ pc = "c_loop"
    /\ IF page_num > MaxPages
       THEN pc' = "c_return" /\ UNCHANGED pagesOpen
       ELSE pc' = "c_goto" /\ pagesOpen' = pagesOpen + 1
    /\ UNCHANGED <<phase, exc, phaseRuns, browserVars, navBusy, loadsVia, listVars,
                   detailVars, outVars, funcVars>>

CollectGoto ==
    /\ pc = "c_goto"
    /\ navBusy' = navBusy + 1
    /\ loadsVia' = loadsVia \cup {<<phase, context>>}
    /\ pc' = "c_load"
    /\ visits' = Append(visits, [page |-> page_num, gain |-> "pending"])
    /\ UNCHANGED <<phase, exc, phaseRuns, browserVars, pagesOpen, page_num, stop, all_urls, detail_urls, disc_map,
                   detailVars, outVars, funcVars>>

\* variant: a first page that adds nothing breaks the loop too
CollectLoadOk_BreakOnFirst ==
    /\ pc = "c_load"
    /\ \E urls \in SUBSET RawLinks :
         LET before == Cardinality(all_urls)
             after == all_urls \cup _filter_detail_urls(urls)
         IN  /\ all_urls' = after
             /\ stop' = (Cardinality(after) = before)
             /\ visits' = [visits EXCEPT ![Len(visits)].gain =
                             IF _filter_detail_urls(urls) \subseteq all_urls THEN "no" ELSE "yes"]
    /\ navBusy' = navBusy - 1
    /\ pc' = "c_close"
    /\ UNCHANGED <<phase, exc, phaseRuns, browserVars, pagesOpen, loadsVia, page_num,
                   detail_urls, disc_map, detailVars, outVars, funcVars>>

\* goto, autoscroll_until_stable and evaluate went through; the links are filtered
\* and added, and a page after the first that adds nothing breaks the loop
CollectLoadOk ==
    /\ pc = "c_load"
    /\ \E urls \in SUBSET RawLinks :
         LET before == Cardinality(all_urls)
             after == all_urls \cup _filter_detail_urls(urls)
         IN  /\ all_urls' = after
             /\ stop' = (page_num > 1 /\ Cardinality(after) = before)
             /\ visits' = [visits EXCEPT ![Len(visits)].gain =
                             IF _filter_detail_urls(urls) \subseteq all_urls THEN "no" ELSE "yes"]
    /\ navBusy' = navBusy - 1
    /\ pc' = "c_close"
    /\ UNCHANGED <<phase, exc, phaseRuns, browserVars, pagesOpen, loadsVia, page_num,
                   detail_urls, disc_map, detailVars, outVars, funcVars>>

\* goto (or the script) raised: nothing catches it in this coroutine
CollectLoadFail ==
    /\ pc = "c_load"
    /\ \E e \in ExcKinds : exc' = e
    /\ navBusy' = navBusy - 1
    /\ pc' = "c_close"
    /\ visits' = [visits EXCEPT ![Len(visits)].gain = "raised"]
    /\ UNCHANGED <<phase, phaseRuns, browserVars, pagesOpen, loadsVia, page_num, stop, all_urls, detail_urls, disc_map,
                   detailVars, outVars, funcVars>>

\* variant: the page is not closed before the loop goes on
CollectClosePage_Leak ==
    /\ pc = "c_close"
    /\ IF exc # "none" THEN pc' = "c_bclose" /\ UNCHANGED page_num
       ELSE IF stop THEN pc' = "c_return" /\ UNCHANGED page_num
       ELSE pc' = "c_loop" /\ page_num' = page_num + 1
    /\ UNCHANGED <<phase, exc, phaseRuns, browserVars, pagesOpen, navBusy, loadsVia, stop, visits,
                   all_urls, detail_urls, disc_map, detailVars, outVars, funcVars>>

\* finally: await page.close()
CollectClosePage ==
    /\ pc = "c_close"
    /\ pagesOpen' = pagesOpen - 1
    /\ IF exc # "none" THEN pc' = "c_bclose" /\ UNCHANGED page_num
       ELSE IF stop THEN pc' = "c_return" /\ UNCHANGED page_num
       ELSE pc' = "c_loop" /\ page_num' = page_num + 1
    /\ UNCHANGED <<phase, exc, phaseRuns, browserVars, navBusy, loadsVia, stop, visits,
                   all_urls, detail_urls, disc_map, detailVars, outVars, funcVars>>

\* return sorted(all_urls)
CollectReturn ==
    /\ pc = "c_return"
    /\ detail_urls' = SortedSeq(all_urls)
    /\ pc' = "c_bclose"
    /\ UNCHANGED <<phase, exc, phaseRuns, browserVars, pagesOpen, navBusy, loadsVia,
                   page_num, stop, visits, all_urls, disc_map, detailVars, outVars, funcVars>>

\* finally: await browser.close()
CollectCloseBrowser ==
    /\ pc = "c_bclose"
    /\ openBrowsers' = openBrowsers \ {browser}
    /\ browser' = 0
    /\ context' = 0
    /\ pc' = "rc_end"
    /\ visits' = <<>>
    /\ UNCHANGED <<phase, exc, phaseRuns, launchedBy, pagesOpen, navBusy, loadsVia,
                   page_num, stop, all_urls, detail_urls, disc_map, detailVars, outVars, funcVars>>

(***************************************************************************)
(* fetch_disclaimers_across_pages / fetch_disclaimers_on_page              *)
(***************************************************************************)
RunDisclaimers ==
    /\ pc = "p_start"
    /\ phase' = "disclaimers"
    /\ phaseRuns' = [phaseRuns EXCEPT !["disclaimers"] = @ + 1]
    /\ pc' = "p_launch"
    /\ UNCHANGED <<exc, browserVars, pagesOpen, navBusy, loadsVia, listVars,
                   detailVars, outVars, funcVars>>

DiscLaunch ==
    /\ pc = "p_launch"
    /\ launchedBy' = Append(launchedBy, phase)
    /\ openBrowsers' = openBrowsers \cup {NewBrowser}
    /\ browser' = NewBrowser
    /\ context' = NewBrowser
    /\ disc_map' = <<>>
    /\ page_num' = 1
    /\ stop' = FALSE
    /\ pc' = "p_loop"
    /\ visits' = <<>>
    /\ UNCHANGED <<phase, exc, phaseRuns, pagesOpen, navBusy, loadsVia, all_urls,
                   detail_urls, detailVars, outVars, funcVars>>

\* the head of `for page in range(1, max_pages + 1)` and context.new_page()
DiscNewPage ==
    /\ pc = "p_loop"
    /\ IF page_num > MaxPages
       THEN pc' = "p_bclose" /\ UNCHANGED pagesOpen
       ELSE pc' = "p_goto" /\ pagesOpen' = pagesOpen + 1
    /\ UNCHANGED <<phase, exc, phaseRuns, browserVars, navBusy, loadsVia, listVars,
                   detailVars, outVars, funcVars>>

DiscGoto ==
    /\ pc = "p_goto"
    /\ navBusy' = navBusy + 1
    /\ loadsVia' = loadsVia \cup {<<phase, context>>}
    /\ pc' = "p_load"
    /\ visits' = Append(visits, [page |-> page_num, gain |-> "pending"])
    /\ UNCHANGED <<phase, exc, phaseRuns, browserVars, pagesOpen, page_num, stop, all_urls, detail_urls, disc_map,
                   detailVars, outVars, funcVars>>

\* the page's map: disc_map[strip_fragment(url)] = disclaimer, for records with a url
PageDiscMap(records) ==
    LET keys == {strip_fragment(u) : u \in DOMAIN records} \ {NoText}
    IN  [k \in keys |-> records[CHOOSE u \in DOMAIN records : strip_fragment(u) = k]]

\* goto, autoscroll_until_stable and evaluate went through; out.update(disc), and
\* a page after the first with no record breaks the loop
DiscLoadOk ==
    /\ pc = "p_load"
    /\ \E records \in DiscRecords :
         LET disc == PageDiscMap(records)
         IN  /\ disc_map' = Update(disc_map, disc)
             /\ stop' = (page_num > 1 /\ DOMAIN disc = {})
             /\ visits' = [visits EXCEPT ![Len(visits)].gain =
                             IF \A u \in DOMAIN records : strip_fragment(u) = NoText
                             THEN "no" ELSE "yes"]
    /\ navBusy' = navBusy - 1
    /\ pc' = "p_close"
    /\ UNCHANGED <<phase, exc, phaseRuns, browserVars, pagesOpen, loadsVia, page_num,
                   all_urls, detail_urls, detailVars, outVars, funcVars>>

DiscLoadFail ==
    /\ pc = "p_load"
    /\ \E e \in ExcKinds : exc' = e
    /\ navBusy' = navBusy - 1
    /\ pc' = "p_close"
    /\ visits' = [visits EXCEPT ![Len(visits)].gain = "raised"]
    /\ UNCHANGED <<phase, phaseRuns, browserVars, pagesOpen, loadsVia, page_num, stop, all_urls, detail_urls, disc_map,
                   detailVars, outVars, funcVars>>

\* finally: await page.close()
DiscClosePage ==
    /\ pc = "p_close"
    /\ pagesOpen' = pagesOpen - 1
    /\ IF exc # "none" \/ stop THEN pc' = "p_bclose" /\ UNCHANGED page_num
       ELSE pc' = "p_loop" /\ page_num' = page_num + 1
    /\ UNCHANGED <<phase, exc, phaseRuns, browserVars, navBusy, loadsVia, stop, visits,
                   all_urls, detail_urls, disc_map, detailVars, outVars, funcVars>>

\* finally: await browser.close()
DiscCloseBrowser ==
    /\ pc = "p_bclose"
    /\ openBrowsers' = openBrowsers \ {browser}
    /\ browser' = 0
    /\ context' = 0
    /\ pc' = "rc_end"
    /\ visits' = <<>>
    /\ UNCHANGED <<phase, exc, phaseRuns, launchedBy, pagesOpen, navBusy, loadsVia,
                   page_num, stop, all_urls, detail_urls, disc_map, detailVars, outVars, funcVars>>

(***************************************************************************)
(* fetch_detail_pages_html_with_playwright                                 *)
(***************************************************************************)
\* the URL of the loop iteration in progress
CurUrl == detail_urls[idx]

RunDetails ==
    /\ pc = "d_start"
    /\ phase' = "details"
    /\ phaseRuns' = [phaseRuns EXCEPT !["details"] = @ + 1]
    /\ results' = <<>>
    /\ navCount' = [u \in {detail_urls[i] : i \in 1..Len(detail_urls)} |-> 0]
    /\ pc' = "d_launch"
    /\ UNCHANGED <<exc, browserVars, pagesOpen, navBusy, loadsVia, listVars,
                   idx, attempt, html_text, lastEv, outVars, funcVars>>

\* browser = await p.chromium.launch(headless=True)
DetailLaunch ==
    /\ pc = "d_launch"
    /\ launchedBy' = Append(launchedBy, phase)
    /\ openBrowsers' = openBrowsers \cup {NewBrowser}
    /\ browser' = NewBrowser
    /\ pc' = "d_context"
    /\ UNCHANGED <<phase, exc, phaseRuns, context, pagesOpen, navBusy, loadsVia,
                   listVars, detailVars, outVars, funcVars>>

\* variant: the context is opened in the browser already launched
DetailContext_Shared ==
    /\ pc = "d_context"
    /\ context' = browser
    /\ pagesOpen' = pagesOpen + 1
    /\ idx' = 1
    /\ pc' = "d_loop"
    /\ UNCHANGED <<phase, exc, phaseRuns, launchedBy, openBrowsers, browser, navBusy,
                   loadsVia, listVars, attempt, html_text, results, navCount, lastEv,
                   outVars, funcVars>>

\* context = await p.chromium.launch_persistent_context(...): a second browser;
\* page = await context.new_page()
DetailContext ==
    /\ pc = "d_context"
    /\ launchedBy' = Append(launchedBy, phase)
    /\ openBrowsers' = openBrowsers \cup {NewBrowser}
    /\ context' = NewBrowser
    /\ pagesOpen' = pagesOpen + 1
    /\ idx' = 1
    /\ pc' = "d_loop"
    /\ UNCHANGED <<phase, exc, phaseRuns, browser, navBusy, loadsVia, listVars,
                   attempt, html_text, results, navCount, lastEv, outVars, funcVars>>

\* the head of `for url in detail_urls`, html_text = "", and the first attempt
DetailNextUrl ==
    /\ pc = "d_loop"
    /\ IF idx > Len(detail_urls)
       THEN pc' = "d_finally" /\ UNCHANGED <<html_text, attempt>>
       ELSE pc' = "d_goto" /\ html_text' = EMPTY_HTML /\ attempt' = 1
    /\ UNCHANGED <<phase, exc, phaseRuns, browserVars, pagesOpen, navBusy, loadsVia,
                   listVars, idx, results, navCount, lastEv, outVars, funcVars>>

\* await page.goto(url, ...)
DetailGoto ==
    /\ pc = "d_goto"
    /\ navBusy' = navBusy + 1
    /\ navCount' = [navCount EXCEPT ![CurUrl] = @ + 1]
    /\ loadsVia' = loadsVia \cup {<<phase, context>>}
    /\ lastEv' = "nav"
    /\ pc' = "d_load"
    /\ UNCHANGED <<phase, exc, phaseRuns, browserVars, pagesOpen, listVars,
                   idx, attempt, html_text, results, outVars, funcVars>>

\* variant: the retry does not look at the attempt number
RetryAfterLoad_NoLimit(page, n) == NeedsRetry(page)

\* variant: only the OOPS text asks for a retry, a cut-off page does not
RetryAfterLoad_OopsOnly(page, n) == looks_like_oops_html(page) /\ n < MAX_TRIES

\* `if looks_like_oops_html(html_text) or len(html_text) < 5000: if attempt < MAX_TRIES`
RetryAfterLoad(page, n) == NeedsRetry(page) /\ n < MAX_TRIES

\* `except Exception: if attempt == MAX_TRIES: ... else: ... continue`
RetryAfterError(n) == n # MAX_TRIES

\* goto, ensure_loaded and page.content() went through
DetailLoadOk ==
    /\ pc = "d_load"
    /\ \E page \in DetailPages :
         /\ html_text' = page
         /\ pc' = IF RetryAfterLoad(page, attempt) THEN "d_backoff" ELSE "d_record"
    /\ navBusy' = navBusy - 1
    /\ lastEv' = "page"
    /\ UNCHANGED <<phase, exc, phaseRuns, browserVars, pagesOpen, loadsVia, listVars,
                   idx, attempt, results, navCount, outVars, funcVars>>

\* goto or page.content() raised: caught by `except Exception`
DetailLoadFail ==
    /\ pc = "d_load"
    /\ IF RetryAfterError(attempt)
       THEN pc' = "d_backoff" /\ UNCHANGED html_text
       ELSE pc' = "d_record" /\ html_text' = EMPTY_HTML
    /\ navBusy' = navBusy - 1
    /\ lastEv' = "error"
    /\ UNCHANGED <<phase, exc, phaseRuns, browserVars, pagesOpen, loadsVia, listVars,
                   idx, attempt, results, navCount, outVars, funcVars>>

\* await page.wait_for_timeout(400 + attempt * 400); continue
DetailBackoff ==
    /\ pc = "d_backoff"
    /\ lastEv' = "backoff"
    /\ attempt' = attempt + 1
    /\ pc' = "d_goto"
    /\ UNCHANGED <<phase, exc, phaseRuns, browserVars, pagesOpen, navBusy, loadsVia,
                   listVars, idx, html_text, results, navCount, outVars, funcVars>>

\* variant: the loop goes on to the next URL without the politeness wait
DetailRecord_NoWait ==
    /\ pc = "d_record"
    /\ results' = Update(results, CurUrl :> html_text)
    /\ lastEv' = "record"
    /\ idx' = idx + 1
    /\ pc' = "d_loop"
    /\ UNCHANGED <<phase, exc, phaseRuns, browserVars, pagesOpen, navBusy, loadsVia,
                   listVars, attempt, html_text, navCount, outVars, funcVars>>

\* results[url] = html_text
DetailRecord ==
    /\ pc = "d_record"
    /\ results' = Update(results, CurUrl :> html_text)
    /\ lastEv' = "record"
    /\ pc' = "d_polite"
    /\ UNCHANGED <<phase, exc, phaseRuns, browserVars, pagesOpen, navBusy, loadsVia,
                   listVars, idx, attempt, html_text, navCount, outVars, funcVars>>

\* await page.wait_for_timeout(int(1000 * random.uniform(*RATE_DELAY_RANGE)))
DetailPolite ==
    /\ pc = "d_polite"
    /\ lastEv' = "polite"
    /\ idx' = idx + 1
    /\ pc' = "d_loop"
    /\ UNCHANGED <<phase, exc, phaseRuns, browserVars, pagesOpen, navBusy, loadsVia,
                   listVars, attempt, html_text, results, navCount, outVars, funcVars>>

\* finally: page.close(), context.close(), browser.close()
DetailFinally ==
    /\ pc = "d_finally"
    /\ pagesOpen' = pagesOpen - 1
    /\ openBrowsers' = openBrowsers \ {browser, context}
    /\ browser' = 0
    /\ context' = 0
    /\ pc' = "rc_end"
    /\ UNCHANGED <<phase, exc, phaseRuns, launchedBy, navBusy, loadsVia, listVars,
                   detailVars, outVars, funcVars>>

(***************************************************************************)
(* run_scrape: row assembly, and the download the UI offers                *)
(***************************************************************************)
StartAssemble ==
    /\ pc = "a_start"
    /\ phase' = "assemble"
    /\ phaseRuns' = [phaseRuns EXCEPT !["assemble"] = @ + 1]
    /\ rows' = <<>>
    /\ idx' = 1
    /\ pc' = "a_loop"
    /\ UNCHANGED <<exc, browserVars, pagesOpen, navBusy, loadsVia, listVars,
                   attempt, html_text, results, navCount, lastEv, table, csv, funcVars>>

\* html_map.get(u, "")
HtmlOf(u) == IF u \in DOMAIN results THEN results[u] ELSE EMPTY_HTML

\* row = process_one(u, html_map.get(u, ""), disc_map); rows.append(row)
AssembleRow ==
    /\ pc = "a_loop"
    /\ idx <= Len(detail_urls)
    /\ rows' = Append(rows, process_one(CurUrl, HtmlOf(CurUrl), disc_map))
    /\ idx' = idx + 1
    /\ UNCHANGED <<pc, phase, exc, phaseRuns, browserVars, pagesOpen, navBusy, loadsVia,
                   listVars, attempt, html_text, results, navCount, lastEv, table, csv,
                   funcVars>>

\* kept = [...]; df = pd.DataFrame(...); return df
AssembleReturn ==
    /\ pc = "a_loop"
    /\ idx > Len(detail_urls)
    /\ table' = DataFrame(Kept(rows))
    /\ pc' = "done"
    /\ UNCHANGED <<phase, exc, phaseRuns, browserVars, pagesOpen, navBusy, loadsVia,
                   listVars, detailVars, rows, csv, funcVars>>

\* df.to_csv(index=False, ...): the header line is the frame's columns
Download ==
    /\ pc = "done"
    /\ csv' = table.columns
    /\ pc' = "shown"
    /\ UNCHANGED <<phase, exc, phaseRuns, browserVars, pagesOpen, navBusy, loadsVia,
                   listVars, detailVars, rows, table, funcVars>>

Next ==
    \/ RunCollect \/ CollectLaunch \/ CollectNewPage \/ CollectGoto \/ CollectLoadOk
    \/ CollectLoadFail \/ CollectClosePage \/ CollectReturn \/ CollectCloseBrowser
    \/ RunDisclaimers \/ DiscLaunch \/ DiscNewPage \/ DiscGoto \/ DiscLoadOk
    \/ DiscLoadFail \/ DiscClosePage \/ DiscCloseBrowser
    \/ RunDetails \/ DetailLaunch \/ DetailContext \/ DetailNextUrl \/ DetailGoto
    \/ DetailLoadOk \/ DetailLoadFail \/ DetailBackoff \/ DetailRecord \/ DetailPolite
    \/ DetailFinally
    \/ RunCoroReturn \/ RunCoroRaise \/ RunCoroFallback
    \/ StartAssemble \/ AssembleRow \/ AssembleReturn \/ Download

Spec == Init /\ [][Next]_vars

(***************************************************************************)
(* process_one on its own: every detail URL the collector can hand over,   *)
(* with every page the fetcher can have recorded for it.                   *)
(***************************************************************************)
\* all concatenations of at most n of the tokens
RECURSIVE TokenStrings(_, _)
TokenStrings(Tokens, n) ==
    IF n = 0 THEN {<<>>}
    ELSE LET S == TokenStrings(Tokens, n - 1)
         IN  S \cup {s \o t : s \in S, t \in Tokens}

SlugTokens == {USED_WORD, <<"-">>, <<"r","v">>}
HeadingTokens == {<<"U","s","e","d">>, <<" ">>, <<":">>, <<"R","V">>}

\* what _filter_detail_urls lets through
TitleUrls ==
    {u \in {PRODUCT_PREFIX \o USED_WORD \o <<"-">> \o s : s \in TokenStrings(SlugTokens, MaxTokens)} :
        strip_fragment(u) = u /\ _looks_like_product_detail(u)}

TitlePages ==
    {[PAGE_GOOD EXCEPT !.h1 = h] : h \in TokenStrings(HeadingTokens, MaxTokens)}
    \cup {PAGE_OOPS, PAGE_BLANK, PAGE_BAD, EMPTY_HTML}

InitTitle ==
    /\ pc = "t_start"
    /\ InitRun
    /\ tin \in [u : TitleUrls, html : TitlePages, disc : {<<>>}]

TitleProcess ==
    /\ pc = "t_start"
    /\ tout' = process_one(tin.u, tin.html, tin.disc)
    /\ pc' = "t_done"
    /\ UNCHANGED <<phase, exc, phaseRuns, browserVars, pagesOpen, navBusy, loadsVia,
                   listVars, detailVars, outVars, tin, scrollVars>>

NextTitle == TitleProcess

SpecTitle == InitTitle /\ [][NextTitle]_vars


(***************************************************************************)
(* Dollar amounts: _closest_amount_after_label, amount_near_label and the  *)
(* payments_from part of parse_detail_html.  The page is one box (a div)   *)
(* with one class and one text; the label is r"As\s+low\s+as", the last of *)
(* the three labels parse_detail_html passes.                              *)
(***************************************************************************)
AMOUNT_WINDOW == 20

\* the first position in 1..n that satisfies P, 0 if none
FirstWhere(n, P(_)) ==
    IF \E i \in 1..n : P(i)
    THEN CHOOSE i \in 1..n : P(i) /\ \A j \in 1..(i - 1) : ~P(j)
    ELSE 0

\* regex \d
IsDigit(c) == \E i \in 1..10 : Digits[i] = c

DigitValue(c) == (CHOOSE i \in 1..10 : Digits[i] = c) - 1

\* int() of a string of digits, 0 for the empty string
RECURSIVE IntValue(_)
IntValue(d) ==
    IF d = <<>> THEN 0
    ELSE IntValue(SubSeq(d, 1, Len(d) - 1)) * 10 + DigitValue(d[Len(d)])

\* s.replace(c, "") for one character
RemoveChar(s, c) == SelectSeq(s, LAMBDA x : x # c)

\* regex [\d,]* from position i: the position after the run
RECURSIVE SkipAmountChars(_, _)
SkipAmountChars(s, i) ==
    IF i <= Len(s) /\ (IsDigit(s[i]) \/ s[i] = ",") THEN SkipAmountChars(s, i + 1) ELSE i

\* r"\$\s*[\d,]+(?:\.\d{2})?" at position i: the position after the match,
\* 0 when there is none
AmountEnd(s, i) ==
    IF i > Len(s) \/ s[i] # "$" THEN 0
    ELSE LET j == SkipSpace(s, i + 1)
             k == SkipAmountChars(s, j)
         IN  IF k = j THEN 0
             ELSE IF k + 2 <= Len(s) /\ s[k] = "." /\ IsDigit(s[k + 1]) /\ IsDigit(s[k + 2])
                  THEN k + 3
                  ELSE k

\* r"/\s*mo\.?" with re.I matches at position i
MoAt(s, i) ==
    /\ i >= 1 /\ i <= Len(s) /\ s[i] = "/"
    /\ MatchAt(safe_lower(s), <<"m","o">>, SkipSpace(s, i + 1))

\* r"\$\s*[\d,]+(?:\.\d{2})?\s*(?=/\s*mo\.?)" at position i: the position after
\* the match, 0 when there is none.  The character after the match is "/",
\* which no shorter run of digits, skipped decimals or shorter run of spaces
\* is followed by, so the greedy match is the only one.
AmountMoEnd(s, i) ==
    LET e == AmountEnd(s, i)
        f == SkipSpace(s, e)
    IN  IF e # 0 /\ MoAt(s, f) THEN f ELSE 0

\* re.compile(r"As\s+low\s+as", re.I) at position i: the position after the
\* match, 0 when there is none
LabelEndAt(s, i) ==
    LET l == safe_lower(s)
        b == SkipSpace(s, i + 2)
        d == SkipSpace(s, b + 3)
    IN  IF /\ MatchAt(l, <<"a","s">>, i)
           /\ b > i + 2 /\ MatchAt(l, <<"l","o","w">>, b)
           /\ d > b + 3 /\ MatchAt(l, <<"a","s">>, d)
        THEN d + 2
        ELSE 0

\* label_regex.search(s).end() + 1, 0 when the label does not occur
LabelEnd(s) ==
    LET i == FirstWhere(Len(s), LAMBDA p : LabelEndAt(s, p) # 0)
    IN  IF i = 0 THEN 0 ELSE LabelEndAt(s, i)

_closest_amount_after_label(container_text, require_mo) ==
    LET t == clean_text(container_text)
        start == LabelEnd(t)
        rest == From(t, start)
        End(i) == IF require_mo THEN AmountMoEnd(rest, i) ELSE AmountEnd(rest, i)
        i == FirstWhere(Len(rest), LAMBDA p : End(p) # 0)
    IN  IF start = 0 \/ i = 0 THEN <<>>
        ELSE RemoveChar(SubSeq(rest, i, End(i) - 1), " ")

\* to_num inside amount_near_label, in cents: float() of the amount without
\* "$" and ",", 0 where float() raises
to_num(s) ==
    LET r == Strip(RemoveChar(RemoveChar(s, "$"), ","))
        dot == Find(r, <<".">>)
        whole == IF dot = 0 THEN r ELSE SubSeq(r, 1, dot - 1)
        cents == IF dot = 0 THEN <<>> ELSE From(r, dot + 1)
    IN  IF /\ \A i \in 1..Len(whole) : IsDigit(whole[i])
           /\ \A i \in 1..Len(cents) : IsDigit(cents[i])
           /\ Len(cents) \in {0, 2}
           /\ Len(whole) + Len(cents) > 0
        THEN IntValue(whole) * 100 + IntValue(cents)
        ELSE 0

\* the candidates of the fallback of amount_near_label, in page order
AmountCandidates(text, mo_suffix) ==
    LET Cand(i) ==
            LET e == AmountEnd(text, i)
                after == SubSeq(text, e, IF e + AMOUNT_WINDOW - 1 < Len(text)
                                         THEN e + AMOUNT_WINDOW - 1 ELSE Len(text))
            IN  /\ e # 0
                /\ mo_suffix => \E p \in 1..Len(after) : MoAt(after, p)
        starts == SelectSeq([i \in 1..Len(text) |-> i], Cand)
    IN  [n \in 1..Len(starts) |->
            RemoveChar(SubSeq(text, starts[n], AmountEnd(text, starts[n]) - 1), " ")]

\* candidates.sort(key=to_num, reverse=True); candidates[0]: the sort is
\* stable, so the first of the largest candidates
LargestAmount(candidates) ==
    candidates[CHOOSE n \in 1..Len(candidates) :
                 /\ \A m \in 1..Len(candidates) : to_num(candidates[m]) <= to_num(candidates[n])
                 /\ \A m \in 1..(n - 1) : to_num(candidates[m]) < to_num(candidates[n])]

BLOCKLIST == {"disclaimer", "fine", "footnote", "legal", "terms", "finance"}

\* the classes the last selector of parse_detail_html picks payments from
PAYMENT_CLASSES == {"payment", "details", "finance", "cta", "summary"}

\* amount_near_label for a page whose one box holds `text`: find_all meets a
\* node when the label occurs in the text
amount_near_label(box, mo_suffix) ==
    IF LabelEnd(box.text) = 0 \/ box.class \in BLOCKLIST THEN <<>>
    ELSE LET amt == _closest_amount_after_label(box.text, mo_suffix)
             candidates == AmountCandidates(box.text, mo_suffix)
         IN  IF amt # <<>> THEN amt
             ELSE IF candidates # <<>> THEN LargestAmount(candidates)
             ELSE <<>>

\* parse_detail_html, the payments_from it puts in the row
payments_from(box) ==
    LET near == amount_near_label(box, TRUE)
        txt == clean_text(box.text)
        i == FirstWhere(Len(txt), LAMBDA p : AmountMoEnd(txt, p) # 0)
    IN  IF near # <<>> THEN near
        ELSE IF box.class \in PAYMENT_CLASSES /\ i # 0
             THEN RemoveChar(SubSeq(txt, i, AmountEnd(txt, i) - 1), " ")
             ELSE <<>>

PAY_LABEL == <<"A","s"," ","l","o","w"," ","a","s">>
PayTokens == {PAY_LABEL, <<"$","9">>, <<"$","\n","1",".","5","0">>, <<",">>,
              <<" ">>, <<"/","m","o">>, <<"x">>}
PayClasses == {"", "payment", "finance"}

\* the boxes of the payment specification
PayBoxes == [text : TokenStrings(PayTokens, MaxPayTokens), class : PayClasses]

InitPay ==
    /\ pc = "pay_start"
    /\ InitRun
    /\ tin \in PayBoxes

PayParse ==
    /\ pc = "pay_start"
    /\ tout' = payments_from(tin)
    /\ pc' = "pay_done"
    /\ UNCHANGED <<phase, exc, phaseRuns, browserVars, pagesOpen, navBusy, loadsVia,
                   listVars, detailVars, outVars, tin, scrollVars>>

NextPay == PayParse

SpecPay == InitPay /\ [][NextPay]_vars


(***************************************************************************)
(* _filter_detail_urls on its own: every link a listing page can hold.     *)
(***************************************************************************)
LinkOrigins == {<<"h","t","t","p","s",":","/","/","w","w","w",".","p","a","r","r","i","s","r","v",".","c","o","m">>,
                <<"h","t","t","p","s",":","/","/","p","a","r","r","i","s","r","v",".","c","o","m",".","e","v","i","l",".","n","e","t">>,
                <<"h","t","t","p","s",":","/","/","e","x","a","m","p","l","e",".","c","o","m">>}
LinkTokens == {PRODUCT_DIR, USED_WORD, <<"-","2","0","1","9","-","r","v">>, <<"-">>, <<".","j","p","g">>, <<"/">>, <<"#","x">>}

\* the hrefs page.evaluate can return for a listing page
PageLinks == {o \o p : o \in LinkOrigins, p \in TokenStrings(LinkTokens, MaxTokens)}

InitFilter ==
    /\ pc = "f_start"
    /\ InitRun
    /\ tin \in PageLinks

FilterUrls ==
    /\ pc = "f_start"
    /\ tout' = _filter_detail_urls({tin})
    /\ pc' = "f_done"
    /\ UNCHANGED <<phase, exc, phaseRuns, browserVars, pagesOpen, navBusy, loadsVia,
                   listVars, detailVars, outVars, tin, scrollVars>>

NextFilter == FilterUrls

SpecFilter == InitFilter /\ [][NextFilter]_vars


(***************************************************************************)
(* autoscroll_until_stable: the scroll loop.  count_links can answer any   *)
(* number of links at every iteration.                                     *)
(***************************************************************************)
LinkCounts == 0..MaxLinks

\* a counter that a change of the count leaves as it is
NextStable_NoReset(st, curr, prev) == IF curr = prev THEN st + 1 ELSE st

\* stable = stable + 1 if curr == last else 0
NextStable(st, curr, prev) == IF curr = prev THEN st + 1 ELSE 0

\* the last MIN_CYCLES + 1 counts
Window(counts) ==
    IF Len(counts) > MIN_CYCLES + 1
    THEN SubSeq(counts, Len(counts) - MIN_CYCLES, Len(counts))
    ELSE counts

InitScroll ==
    /\ pc = "s_loop"
    /\ InitRun
    /\ tin = NoInput

\* one iteration: scroll, wait, click "load more", count, compare, maybe break
ScrollIter ==
    /\ pc = "s_loop"
    /\ loops < MAX_LOOPS
    /\ \E curr \in LinkCounts :
         /\ stable' = NextStable(stable, curr, last)
         /\ last' = curr
         /\ recent' = Window(Append(recent, curr))
    /\ loops' = loops + 1
    /\ pc' = IF stable' >= MIN_CYCLES THEN "s_done" ELSE "s_loop"
    /\ UNCHANGED <<phase, exc, phaseRuns, browserVars, pagesOpen, navBusy, loadsVia,
                   listVars, detailVars, outVars, tin, tout>>

\* range(max_loops) is used up
ScrollExhausted ==
    /\ pc = "s_loop"
    /\ loops = MAX_LOOPS
    /\ pc' = "s_done"
    /\ UNCHANGED <<phase, exc, phaseRuns, browserVars, pagesOpen, navBusy, loadsVia,
                   listVars, detailVars, outVars, funcVars>>

\* page.evaluate or a wait raises something other than PWTimeout
ScrollRaise ==
    /\ pc = "s_loop"
    /\ loops < MAX_LOOPS
    /\ loops' = loops + 1
    /\ pc' = "s_raised"
    /\ UNCHANGED <<phase, exc, phaseRuns, browserVars, pagesOpen, navBusy, loadsVia,
                   listVars, detailVars, outVars, tin, tout, stable, last, recent>>

NextScroll == ScrollIter \/ ScrollExhausted \/ ScrollRaise

\* every await of the loop has a timeout or runs a finite script
SpecScroll == InitScroll /\ [][NextScroll]_vars /\ WF_vars(NextScroll)


(***************************************************************************)
(* The URL of listing page n, as both listing passes build it.             *)
(***************************************************************************)
PAGE_EQ == <<"p","a","g","e","=">>
AMP_PAGE_EQ == <<"&","p","a","g","e","=">>
DEFAULT_URL == <<"h","t","t","p","s",":","/","/","w","w","w",".","p","a","r","r","i","s","r","v",".","c","o","m","/","u","s","e","d","-","r","v","s","-","f","o","r","-","s","a","l","e","?","s","=","t","r","u","e","&","l","o","t","s","=","1","2","3","2","&","p","a","g","e","s","i","z","e","=","7","2","&","s","o","r","t","=","y","e","a","r","-","a","s","c">>
LISTING_BASE == <<"h","t","t","p","s",":","/","/","w","w","w",".","p","a","r","r","i","s","r","v",".","c","o","m","/","u","s","e","d","-","r","v","s","-","f","o","r","-","s","a","l","e">>

\* str(n) for n >= 0
RECURSIVE ToStr(_)
ToStr(n) == IF n < 10 THEN <<Digits[n + 1]>> ELSE ToStr(n \div 10) \o <<Digits[(n % 10) + 1]>>

\* regex \d* from position i: the position after the run
RECURSIVE SkipDigits(_, _)
SkipDigits(s, i) == IF i <= Len(s) /\ IsDigit(s[i]) THEN SkipDigits(s, i + 1) ELSE i

\* re.sub(r"([?&])page=\d+", rf"\1page={page}", s): leftmost matches, none
\* overlapping, the replacement is not scanned again
RECURSIVE SubPage(_, _)
SubPage(s, page) ==
    IF s = <<>> THEN <<>>
    ELSE LET e == SkipDigits(s, 2 + Len(PAGE_EQ))
         IN  IF s[1] \in {"?", "&"} /\ MatchAt(s, PAGE_EQ, 2) /\ e > 2 + Len(PAGE_EQ)
             THEN <<s[1]>> \o PAGE_EQ \o ToStr(page) \o SubPage(From(s, e), page)
             ELSE <<s[1]>> \o SubPage(Tail(s), page)

\* the url of page `page` in collect_detail_urls_with_playwright and
\* fetch_disclaimers_across_pages
page_url(listing_url, page) ==
    IF Contains(listing_url, PAGE_EQ) THEN SubPage(listing_url, page)
    ELSE IF page = 1 THEN listing_url
    ELSE listing_url \o AMP_PAGE_EQ \o ToStr(page)

\* parameters a listing URL can carry
QueryParams == {<<"s","=","t","r","u","e">>, <<"p","a","g","e","=","3">>, <<"p","e","r","p","a","g","e","=","7","2">>, <<"p","a","g","e","s","i","z","e","=","7","2">>}

\* "?" and the parameters joined by "&"
RECURSIVE JoinQuery(_)
JoinQuery(ps) ==
    IF ps = <<>> THEN <<>>
    ELSE (IF Len(ps) = 1 THEN <<"?">> ELSE JoinQuery(SubSeq(ps, 1, Len(ps) - 1)) \o <<"&">>)
         \o ps[Len(ps)]

\* the listing URLs run_scrape can be given: the default of the form, and the
\* listing with up to MaxParams parameters
ListingUrls ==
    {DEFAULT_URL} \cup
    {LISTING_BASE \o JoinQuery(ps) : ps \in UNION {[1..n -> QueryParams] : n \in 0..MaxParams}}

InitPageUrl ==
    /\ pc = "u_start"
    /\ InitRun
    /\ tin \in ListingUrls

\* the urls the loop builds for pages 1..max_pages
PageUrls ==
    /\ pc = "u_start"
    /\ tout' = [n \in 1..MaxPages |-> page_url(tin, n)]
    /\ pc' = "u_done"
    /\ UNCHANGED <<phase, exc, phaseRuns, browserVars, pagesOpen, navBusy, loadsVia,
                   listVars, detailVars, outVars, tin, scrollVars>>

NextPageUrl == PageUrls

SpecPageUrl == InitPageUrl /\ [][NextPageUrl]_vars

(***************************************************************************)
(* Properties.                                                             *)
(***************************************************************************)
Returned == pc \in {"done", "shown"}

\* the URLs whose attempt loop is over
Fetched == {detail_urls[i] : i \in 1..(IF pc = "d_polite" THEN idx ELSE idx - 1)}

\* C1: a failure while loading a listing page or a detail page never leaves
\* run_scrape: the run does not end in an exception, and in the table it returns
\* the page fields of a URL whose page could not be fetched are empty strings.
C1_FailuresDoNotPropagate ==
    /\ pc # "raised"
    /\ Returned =>
         \A i \in 1..Len(rows) :
            HtmlOf(rows[i].detail_url) = EMPTY_HTML =>
               /\ rows[i].tagline = NoText /\ rows[i].list_price = NoText
               /\ rows[i].payments_from = NoText /\ rows[i].image_url = NoText

\* C2: no row of the returned table comes from a detail URL whose recorded HTML
\* is an OOPS page, and no returned row has an empty title.
C2_BrokenRowsDropped ==
    Returned =>
      \A i \in 1..Len(table.records) :
         /\ ~looks_like_oops_html(HtmlOf(table.records[i].detail_url))
         /\ table.records[i].title # NoText

\* the columns the module header and the UI announce
OutputColumns == <<"title", "tagline", "list_price", "payments_from",
                   "payments_disclaimer", "image_url", "detail_url">>

\* C3: the returned table, every row of it and the CSV made from it have exactly
\* the columns title, tagline, list_price, payments_from, payments_disclaimer,
\* image_url, detail_url.
C3_FixedColumns ==
    /\ Returned =>
         /\ table.columns = OutputColumns
         /\ \A i \in 1..Len(table.records) :
               DOMAIN table.records[i] = {OutputColumns[j] : j \in 1..Len(OutputColumns)}
    /\ pc = "shown" => csv = OutputColumns

\* C4: every detail URL is navigated to at most MAX_TRIES times, the attempt
\* number never passes MAX_TRIES, and once the attempt loop of a URL is over
\* results holds one entry for each URL handled so far and for no other.
C4_AtMostMaxTries ==
    phase = "details" /\ pc \notin {"d_start", "d_launch", "d_context"} =>
      /\ \A u \in DOMAIN navCount : navCount[u] <= MAX_TRIES
      /\ pc \in {"d_goto", "d_load", "d_backoff", "d_record"} =>
           attempt <= MAX_TRIES /\ navCount[CurUrl] <= attempt
      /\ DOMAIN results = Fetched
      /\ Cardinality(DOMAIN results) = (IF pc = "d_polite" THEN idx ELSE idx - 1)
      /\ \A u \in Fetched : navCount[u] >= 1

\* C4 witness: a URL was recorded after all MAX_TRIES navigations
C4_Witness ==
    /\ pc = "d_polite"
    /\ navCount[CurUrl] = MAX_TRIES
    /\ CurUrl \in DOMAIN results

\* C5 as stated: one browser is launched in a run, and every page load goes
\* through it.
C5_SingleBrowser ==
    /\ Len(launchedBy) <= 1
    /\ \A l \in loadsVia : l[2] = 1

\* how many browsers phase p has launched
LaunchesOf(p) == Cardinality({b \in 1..Len(launchedBy) : launchedBy[b] = p})

\* C5 amended: every phase launches browsers of its own (one in each listing
\* pass, two in the detail pass), every page load goes through a browser that
\* the phase in progress launched and that is open, and a run that returns has
\* launched four browsers and closed them all.
C5_BrowsersPerPhase ==
    /\ \A l \in loadsVia : l[2] \in 1..Len(launchedBy) /\ launchedBy[l[2]] = l[1]
    /\ navBusy > 0 => context \in openBrowsers /\ launchedBy[context] = phase
    /\ LaunchesOf("collect") <= 1 /\ LaunchesOf("disclaimers") <= 1
    /\ LaunchesOf("details") <= 2 /\ LaunchesOf("assemble") = 0
    /\ Returned => Len(launchedBy) = 4 /\ openBrowsers = {}

\* C5 witness: the run returned after page loads in all three browser phases
C5_Witness ==
    /\ pc = "done"
    /\ {l[1] : l \in loadsVia} = {"collect", "disclaimers", "details"}

\* C6: at most one navigation is in progress and at most one page is open at any
\* time, a navigation runs on the one open page, and in the listing passes the
\* page is closed before the loop goes on to the next page.
C6_NoParallelWork ==
    /\ navBusy <= 1
    /\ pagesOpen <= 1
    /\ navBusy = 1 => pagesOpen = 1
    /\ pc \in {"c_loop", "p_loop", "c_return", "c_bclose", "p_bclose"} => pagesOpen = 0

\* C6 witness: the second listing page is about to load, with one page open
C6_Witness ==
    /\ pc = "c_goto"
    /\ page_num = 2
    /\ pagesOpen = 1

\* C7: each phase runs at most once and in the order collect, disclaimers,
\* details, assemble; a phase starts only when no browser and no page is open;
\* nothing is loaded once row assembly has started; a run that returns has run
\* each phase exactly once.
C7_PhasesOnceInOrder ==
    /\ \A p \in Phases : phaseRuns[p] <= 1
    /\ phaseRuns["disclaimers"] <= phaseRuns["collect"]
    /\ phaseRuns["details"] <= phaseRuns["disclaimers"]
    /\ phaseRuns["assemble"] <= phaseRuns["details"]
    /\ pc \in {"start", "p_start", "d_start", "a_start", "c_launch", "p_launch", "d_launch"} =>
         openBrowsers = {} /\ pagesOpen = 0 /\ navBusy = 0
    /\ phase = "assemble" => openBrowsers = {} /\ pagesOpen = 0 /\ navBusy = 0
    /\ phase = "disclaimers" => phaseRuns["details"] = 0
    /\ phase = "collect" => phaseRuns["disclaimers"] = 0
    /\ Returned => \A p \in Phases : phaseRuns[p] = 1

\* C7 witness: a run over two detail URLs returned
C7_Witness ==
    /\ pc = "done"
    /\ Len(detail_urls) = 2
    /\ \A p \in Phases : phaseRuns[p] = 1

\* C8: a navigation in the detail pass always comes right after a wait: a retry
\* right after the back-off wait, the first attempt on a later URL right after
\* the politeness wait that followed the recording of the URL before it.
C8_Throttled ==
    [][(pc = "d_goto" /\ lastEv' = "nav") =>
         /\ lastEv \in {"none", "backoff", "polite"}
         /\ attempt > 1 => lastEv = "backoff"
         /\ (attempt = 1 /\ idx > 1) => lastEv = "polite"
         /\ (attempt = 1 /\ idx = 1) => lastEv = "none"]_vars

\* C8 witness: the first navigation to the second URL, after the politeness wait
C8_Witness ==
    /\ pc = "d_load"
    /\ idx = 2
    /\ attempt = 1
    /\ DOMAIN results = {detail_urls[1]}

\* the pages the detail pass retries: OOPS text, or fewer than 5000 characters
OopsOrShort(page) == page.oops \/ page.size < MIN_HTML_LEN

\* C9: an attempt that yields an OOPS or short page while fewer than MAX_TRIES
\* attempts were made is followed by the back-off and another attempt on the same
\* URL, with nothing recorded in between; an attempt that yields a full non-OOPS
\* page ends the attempts: the page is recorded next.
C9_OopsRetried ==
    /\ [](lastEv = "page" =>
            /\ (OopsOrShort(html_text) /\ attempt < MAX_TRIES) => pc = "d_backoff"
            /\ ~OopsOrShort(html_text) => pc = "d_record")
    /\ [][pc = "d_backoff" =>
            /\ pc' = "d_goto" /\ idx' = idx /\ attempt' = attempt + 1
            /\ results' = results]_vars
    /\ [][pc = "d_record" => results' = Update(results, CurUrl :> html_text)]_vars

\* C9 witness: a short page on the second attempt sends the loop to the back-off
C9_Witness ==
    /\ pc = "d_backoff"
    /\ lastEv = "page"
    /\ attempt = 2
    /\ html_text = PAGE_SHORT

\* re.match(r"\s*used\b", title, re.I): the title begins with the word "used"
BeginsWithUsed(title) ==
    LET i == SkipSpace(title, 1)
        j == i + Len(USED_WORD)
    IN  /\ MatchAt(safe_lower(title), USED_WORD, i)
        /\ j > Len(title) \/ ~IsWordChar(title[j])

\* C10: the title of every row process_one returns does not begin with the word
\* "used" (in any case, after leading whitespace).
C10_NoLeadingUsed ==
    pc = "t_done" => ~BeginsWithUsed(tout.title)

\* "$", then digits and commas, then at most one "." with two digits
IsBareAmount(a) ==
    /\ Len(a) >= 2 /\ a[1] = "$"
    /\ \E k \in 2..Len(a) :
         /\ \A i \in 2..k : IsDigit(a[i]) \/ a[i] = ","
         /\ \/ k = Len(a)
            \/ Len(a) = k + 3 /\ a[k + 1] = "." /\ IsDigit(a[k + 2]) /\ IsDigit(a[k + 3])

\* the amount stands in the text, whitespace aside, with "/mo" next after it
FollowedByMo(text, a) ==
    \E i \in 1..Len(text) : \E j \in i..Len(text) :
        /\ text[i] = "$"
        /\ SelectSeq(SubSeq(text, i, j), LAMBDA c : ~IsSpace(c)) = a
        /\ MoAt(text, SkipSpace(text, j + 1))

\* C11: the payments_from of a parsed page is empty or a bare dollar amount
\* ("$", digits and commas, optional two decimals, no whitespace, no "/mo")
\* that "/mo" follows in the text of the page.
C11_PaymentsFromIsMonthlyAmount ==
    pc = "pay_done" /\ tout # <<>> =>
        /\ IsBareAmount(tout)
        /\ FollowedByMo(tin.text, tout)

\* the host is parrisrv.com or one of its subdomains
OnParrisHost(u) ==
    \/ UrlNetloc(u) = PARRIS_HOST
    \/ EndsWith(UrlNetloc(u), <<".">> \o PARRIS_HOST)

\* the path is /product/used-<slug>, with at least two hyphens in the
\* used-<slug> segment, and is no image
IsProductDetailPath(path) ==
    LET seg == SubSeq(path, Len(PRODUCT_DIR) + 1,
                      Len(PRODUCT_DIR) + FirstOf(From(path, Len(PRODUCT_DIR) + 1), {"/"}) - 1)
    IN  /\ StartsWith(path, PRODUCT_USED)
        /\ CountChar(seg, "-") >= 2
        /\ \A e \in IMAGE_EXTS : ~EndsWith(path, e)

\* C12: every URL the filter of collect_detail_urls_with_playwright lets
\* through has a host on parrisrv.com and a path /product/used-<slug> with at
\* least two hyphens in the segment, not the bare /product/used and no image.
C12_OnlyProductDetailUrls ==
    pc = "f_done" =>
        \A u \in tout :
            /\ OnParrisHost(u)
            /\ IsProductDetailPath(safe_lower(UrlPath(u)))
            /\ safe_lower(UrlPath(u)) # PRODUCT_USED_BARE

\* is_valid_row was run on the row and accepted it
Accepted(r) == r["__status__"] # "parse_error" /\ is_valid_row(r)[1]

\* strong signals: a title of 6 characters with an image, a price,
\* a payment or a disclaimer
StrongSignals(r) ==
    /\ Len(Strip(r.title)) >= 6
    /\ \E k \in {"image_url", "list_price", "payments_from", "payments_disclaimer"} :
         Strip(r[k]) # NoText

\* weak signals: a title of 10 characters and a product detail_url
WeakSignals(r) ==
    /\ Len(Strip(r.title)) >= 10
    /\ StartsWith(r.detail_url, PRODUCT_PREFIX)

\* C13: the table run_scrape returns holds, in order, exactly the rows that
\* is_valid_row accepted; each has strong or weak signals, and no row marked
\* dropped or parse_error is in it.
C13_KeepsAcceptedRowsOnly ==
    Returned =>
        /\ table.records = DataFrame(SelectSeq(rows, Accepted)).records
        /\ \A j \in 1..Len(table.records) :
             /\ StrongSignals(table.records[j]) \/ WeakSignals(table.records[j])
             /\ table.records[j]["__status__"] \notin {"dropped", "parse_error"}

\* a run that returned a weak-signals row and left a parse_error row and a
\* dropped row out
C13_Witness ==
    /\ Returned
    /\ \E j \in 1..Len(table.records) :
         ~StrongSignals(table.records[j]) /\ WeakSignals(table.records[j])
    /\ \E i \in 1..Len(rows) : rows[i]["__status__"] = "parse_error"
    /\ Len(table.records) < Len(rows)

\* the count of the last iteration and of the MIN_CYCLES before it are one value
StableWindow ==
    /\ Len(recent) = MIN_CYCLES + 1
    /\ \A i \in 1..Len(recent) : recent[i] = recent[Len(recent)]

\* the number of iterations, counted back from the last, whose count equals
\* the count of the iteration before
RECURSIVE EqualRun(_)
EqualRun(counts) ==
    IF Len(counts) < 2 \/ counts[Len(counts)] # counts[Len(counts) - 1] THEN 0
    ELSE 1 + EqualRun(SubSeq(counts, 1, Len(counts) - 1))

ScrollBounded ==
    /\ loops <= MAX_LOOPS
    /\ stable = EqualRun(recent)
    /\ pc = "s_loop" => ~StableWindow
    /\ pc = "s_done" => StableWindow \/ loops = MAX_LOOPS

\* C14: autoscroll_until_stable ends; it runs at most max_loops iterations,
\* stable counts the iterations since the last change of the link count, and
\* the loop breaks at the first iteration that ends min_cycles iterations
\* without a change, never before.
C14_ScrollTerminates == []ScrollBounded /\ <>(pc \in {"s_done", "s_raised"})

\* the loop broke on a stable count after the count had changed
C14_Witness ==
    /\ pc = "s_done"
    /\ StableWindow
    /\ loops > MIN_CYCLES + 2
    /\ loops < MAX_LOOPS

\* the pass in progress left its loop without an exception
LoopOver ==
    \/ phase = "collect" /\ pc = "c_return"
    \/ phase = "disclaimers" /\ pc = "p_bclose" /\ exc = "none"

QueryOf(u) ==
    LET q == Find(u, <<"?">>)
        r == IF q = 0 THEN <<>> ELSE From(u, q + 1)
    IN  SubSeq(r, 1, FirstOf(r, {"#"}) - 1)

\* one of the "&"-separated parameters of the URL is page=<n>
HasPageParam(u, n) ==
    LET q == QueryOf(u)
        p == PAGE_EQ \o ToStr(n)
    IN  \E i \in 1..Len(q) :
            /\ MatchAt(q, p, i)
            /\ i = 1 \/ q[i - 1] = "&"
            /\ i + Len(p) > Len(q) \/ q[i + Len(p)] = "&"

\* C16: for every listing URL and every page n in 2..max_pages, the URL loaded
\* for page n has the query parameter page=n and is loaded for no other page.
C16_PageUrlCarriesPageNumber ==
    pc = "u_done" =>
        \A n \in 2..MaxPages :
            /\ HasPageParam(tout[n], n)
            /\ \A m \in 1..MaxPages : m # n => tout[m] # tout[n]

====
